---- MODULE Spec2Model ----
(***************************************************************************)
(* A model of ioclib's Injector (src/ioclib/injector/injector.py): the      *)
(* registry of definitions, first-match lookup, the double-checked locked   *)
(* construction in Injector._get, the parameter binding of                   *)
(* Injectable.__call__, and the release pass of Injector.release/entry.     *)
(*                                                                         *)
(* Python values are records [tag, id].  Every value a factory yields is an *)
(* object (truthy); the truthiness tests of the source are kept as Truthy.  *)
(* A contextlib generator context manager is an entry of `managers`, with   *)
(* the state of its generator.                                              *)
(***************************************************************************)
EXTENDS Integers, Sequences, FiniteSets, TLC

\* ------------------------------------------------------------ bounds
MaxDefs == 3      \* longest registry the lookup specification builds
MaxCalls == 2     \* calls of injectable functions the program makes
MaxScopes == 2    \* entry blocks the program opens
MaxObjs == 4      \* context managers (constructions) in one behaviour

\* ------------------------------------------------------------ values
void == [tag |-> "void", id |-> 0]
None == [tag |-> "None", id |-> 0]
Empty == [tag |-> "empty", id |-> 0]          \* a falsy value that is not None
Object(n) == [tag |-> "object", id |-> n]     \* the value manager n yields
Manager(n) == [tag |-> "manager", id |-> n]   \* the context manager number n
Explicit == [tag |-> "explicit", id |-> 0]    \* a value the caller passes
SelfObj == [tag |-> "self", id |-> 0]         \* the instance of a bound method
Default == [tag |-> "default", id |-> 0]      \* a Requirement's default
Provided == [tag |-> "provided", id |-> 0]    \* a value a plugin returns

\* bool(v): None and empty values are falsy
Truthy(v) == v.tag \notin {"None", "empty"}

Threads == {"t1", "t2"}

\* ------------------------------------------------------------ classes
Classes == {"Base", "Sub", "Other", "Outer", "Undefined"}

\* issubclass(c, b) for the classes of the model: Sub(Base), the rest apart.
issubclass(c, b) == c = b \/ (c = "Sub" /\ b = "Base")

\* ------------------------------------------------------------ requirements
\* Requirement(name, type, location, default); type is the set of classes the
\* annotation names: {} for None, one class, or the members of a Union.
Requirement(name, type, default) == [name |-> name, type |-> type, default |-> default]

inject(name, cls) == Requirement(name, cls, void)

NoRequirement == Requirement("-", {}, None)    \* a parameter default that is no Requirement

NoName == "None"

\* Requirement.types: the members of a Union, or the class itself.
types(requirement) == requirement.type

\* Requirement.issuperclass(cls)
issuperclass(requirement, cls) == \E c \in types(requirement) : issubclass(cls, c)

\* ------------------------------------------------------------ signatures
Param(name, kind, annotation, default) ==
    [name |-> name, kind |-> kind, annotation |-> annotation, default |-> default]

ParamNames == {"self", "value", "svc", "a", "dep"}

\* The functions of the program: factories (generator functions given to
\* Injector.define) and injectable functions.  returns: the class of
\* Iterator[...]; injectable: wrapped by Injector.injectable; raises: the
\* generator raises before its yield; closes: "ok" or "raises", what the code
\* after the yield does.
Function(parameters, returns, injectable, raises, closes) ==
    [parameters |-> parameters, returns |-> returns, injectable |-> injectable,
     raises |-> raises, closes |-> closes]

Plain(returns, raises, closes) == Function(<<>>, returns, FALSE, raises, closes)

Injected(parameters, returns) == Function(parameters, returns, TRUE, FALSE, "ok")

Functions ==
    [sub_def |-> Plain("Sub", FALSE, "ok"),
     base_def |-> Plain("Base", FALSE, "ok"),
     other_def |-> Plain("Other", FALSE, "ok"),
     leaky_def |-> Plain("Other", FALSE, "raises"),
     broken_def |-> Plain("Other", TRUE, "ok"),
     outer_def |-> Injected(<<Param("dep", "POSITIONAL_OR_KEYWORD", {"Base"}, inject(NoName, {}))>>, "Outer"),
     loop_def |-> Injected(<<Param("dep", "POSITIONAL_OR_KEYWORD", {"Outer"}, inject(NoName, {}))>>, "Outer"),
     get_base |-> Injected(<<Param("svc", "POSITIONAL_OR_KEYWORD", {"Base"}, inject(NoName, {}))>>, "-"),
     get_other |-> Injected(<<Param("svc", "POSITIONAL_OR_KEYWORD", {"Other"}, inject(NoName, {}))>>, "-"),
     get_outer |-> Injected(<<Param("svc", "POSITIONAL_OR_KEYWORD", {"Outer"}, inject(NoName, {}))>>, "-"),
     get_undefined |-> Injected(<<Param("svc", "POSITIONAL_OR_KEYWORD", {"Undefined"}, inject(NoName, {}))>>, "-"),
     get_outer_default |-> Injected(<<Param("svc", "POSITIONAL_OR_KEYWORD", {"Outer"},
                                            Requirement(NoName, {}, Default))>>, "-"),
     get_untyped |-> Injected(<<Param("svc", "POSITIONAL_OR_KEYWORD", {}, inject(NoName, {}))>>, "-"),
     get_untyped_default |-> Injected(<<Param("svc", "POSITIONAL_OR_KEYWORD", {},
                                              Requirement(NoName, {}, Default))>>, "-"),
     get_default |-> Injected(<<Param("svc", "POSITIONAL_OR_KEYWORD", {"Undefined"},
                                      Requirement(NoName, {}, Default))>>, "-"),
     get_pair |-> Injected(<<Param("svc", "POSITIONAL_OR_KEYWORD", {"Base"}, inject(NoName, {})),
                             Param("a", "KEYWORD_ONLY", {}, inject(NoName, {"Other"}))>>, "-"),
     method |-> Injected(<<Param("self", "POSITIONAL_OR_KEYWORD", {}, NoRequirement),
                           Param("svc", "POSITIONAL_OR_KEYWORD", {"Base"}, inject(NoName, {}))>>, "-"),
     static |-> Injected(<<Param("value", "POSITIONAL_ONLY", {}, NoRequirement),
                           Param("svc", "KEYWORD_ONLY", {"Sub", "Other"}, inject(NoName, {}))>>, "-")]

NoKwargs == [n \in ParamNames |-> void]

\* ------------------------------------------------------------ registry
\* Definition.__init__: a definition keeps its factory and name; its class
\* (SingletonDefinition, ContextDefinition) is its scope.
Definition(scope, name, fn) == [scope |-> scope, name |-> name, fn |-> fn]

\* Definition.classes, filled by __init_subclass__ in the order of the class
\* statements: the scopes that have a Definition subclass.
DefinitionClasses == <<"singleton", "context">>

Scopes == {"singleton", "context", "transient"}

\* Definition.type: the argument of the factory's Iterator[...] annotation.
type(definition) == Functions[definition.fn].returns

\* Injector.define(scope, name)(function): append an instance of the first
\* Definition class whose scope is `scope`; no class, no definition.
define(defs, scope, name, fn) ==
    IF \E i \in 1..Len(DefinitionClasses) : DefinitionClasses[i] = scope
    THEN Append(defs, Definition(scope, name, fn))
    ELSE defs

\* The test of Injector._get_definition's loop for one definition.
matches(definition, requirement) ==
    /\ issuperclass(requirement, type(definition))
    /\ (definition.name = NoName \/ definition.name = requirement.name)

RECURSIVE scan(_, _, _)
scan(defs, requirement, i) ==
    IF i > Len(defs) THEN 0
    ELSE IF matches(defs[i], requirement) THEN i
    ELSE scan(defs, requirement, i + 1)

\* a lookup that prefers the definition registered last
_get_definition_last(defs, requirement) ==
    LET M == {k \in 1..Len(defs) : matches(defs[k], requirement)}
    IN IF M = {} THEN 0 ELSE CHOOSE k \in M : \A j \in M : j <= k

\* Injector._get_definition: the index of the first matching definition, 0 for None.
_get_definition(defs, requirement) == scan(defs, requirement, 1)

\* ------------------------------------------------------------ plugins
\* A plugin either raises LookupError or returns a value.
Plugin(raises, value) == [raises |-> raises, value |-> value]

RECURSIVE extra(_, _, _)
extra(plugs, requirement, i) ==
    IF i > Len(plugs)
    THEN IF requirement.default # void
         THEN [raised |-> FALSE, value |-> requirement.default, called |-> i - 1]
         ELSE [raised |-> TRUE, value |-> None, called |-> i - 1]
    ELSE IF ~plugs[i].raises /\ Truthy(plugs[i].value)
         THEN [raised |-> FALSE, value |-> plugs[i].value, called |-> i]
    ELSE extra(plugs, requirement, i + 1)

\* a fallback that returns None where the source raises LookupError
_get_extra_quiet(plugs, requirement) ==
    IF extra(plugs, requirement, 1).raised
    THEN [raised |-> FALSE, value |-> None, called |-> Len(plugs)]
    ELSE extra(plugs, requirement, 1)

\* Injector._get_extra: the first truthy plugin value, else the default, else
\* LookupError; `called` counts the plugins it called.
_get_extra(plugs, requirement) == extra(plugs, requirement, 1)

\* ------------------------------------------------------------ binding
\* Parameter.annotation of a parameter declared without one: the class
\* inspect.Parameter.empty, which is truthy and which no definition's type is a
\* subclass of.
Parameter_empty == {"_empty"}

\* parameter.annotation, as __call__ reads it (line 260)
annotated(parameter) ==
    IF parameter.annotation = {} THEN Parameter_empty ELSE parameter.annotation

\* a binder that leaves the requirement's name as it was declared
complete_unnamed(parameter) ==
    Requirement(parameter.default.name,
                IF parameter.default.type # {} THEN parameter.default.type ELSE annotated(parameter),
                parameter.default.default)

\* Injectable.__call__, lines 258-262: the requirement completed from the parameter.
complete(parameter) ==
    Requirement(IF parameter.default.name # NoName THEN parameter.default.name ELSE parameter.name,
                IF parameter.default.type # {} THEN parameter.default.type ELSE annotated(parameter),
                parameter.default.default)

\* a binder that does not look at the caller's arguments
supplied_never(parameter, position, args, kwargs) == void

\* Injectable.__call__, lines 264-272: the argument the caller supplied for the
\* parameter at `position` (from 0), void when there is none.
supplied(parameter, position, args, kwargs) ==
    LET byPosition ==
            IF parameter.kind \in {"POSITIONAL_ONLY", "POSITIONAL_OR_KEYWORD"} /\ position < Len(args)
            THEN args[position + 1] ELSE void
    IN IF byPosition = void /\ parameter.kind \in {"KEYWORD_ONLY", "POSITIONAL_OR_KEYWORD"}
       THEN kwargs[parameter.name] ELSE byPosition

\* ------------------------------------------------------------ state
VARIABLES
    definitions,    \* Injector._definitions
    plugins,        \* Injector._plugins
    pending,        \* the define() calls the program has still to make
    defined,        \* the define() calls it has made
    menu,           \* what the program may do: its calls [fn, args, kwargs], its entry blocks
    _instance,      \* _instance[k][d]: k is "self" (SingletonDefinition) or a context
    _manager,       \* _manager[k][d], likewise
    _lock,          \* Definition._lock: "free" or the thread that holds it
    managers,       \* the context managers the factories have returned
    stack,          \* stack[t]: the frames of thread t, innermost last
    scope,          \* scope[t]: the Injector.entry block thread t is in
    log,            \* log[t]: what each finished call and entry block did
    cur,            \* the context that runs (one thread), or "any" (threads)
    found,          \* the last lookup of the lookup specification
    rooted          \* Container.root has been applied: its copy of the context is "t2"

vars == <<definitions, plugins, pending, defined, menu, _instance, _manager, _lock,
          managers, stack, scope, log, cur, found, rooted>>

Keys == Threads \cup {"self"}

Defs == 1..Len(definitions)

\* a context definition keeps its instance in the first context only
key_parent(d, t) == IF definitions[d].scope = "singleton" THEN "self" ELSE "t1"

\* every definition keeps its instance on itself
key_shared(d, t) == "self"

\* Where a definition keeps its instance and manager: on itself
\* (SingletonDefinition.__init__) or in the current context's ContextVars
\* (ContextDefinition.__init__).  Every thread runs in a context of its own.
key(d, t) == IF definitions[d].scope = "singleton" THEN "self" ELSE t

\* Definition.instance
instance(d, t) == _instance[key(d, t)][d]

NoManager == [d |-> 0, state |-> "unused", kwargs |-> NoKwargs, exits |-> 0, error |-> "None"]

Used == {m \in 1..MaxObjs : managers[m].state # "unused"}

\* ------------------------------------------------------------ frames
Frame(kind, pc, fn, d) ==
    [kind |-> kind, pc |-> pc, fn |-> fn, d |-> d, i |-> 1, args |-> <<>>,
     kwargs |-> NoKwargs, resolved |-> {}, m |-> 0, factories |-> {},
     error |-> "None", live |-> {}, exited |-> <<>>, raising |-> "None",
     given |-> [args |-> <<>>, kwargs |-> NoKwargs]]

Top(t) == stack[t][Len(stack[t])]

Rest(stk) == SubSeq(stk, 1, Len(stk) - 1)

Parameters(frame) == Functions[frame.fn].parameters

\* the pcs of a _get frame inside `with definition.lock`
Locked == {"recheck", "factory", "__enter__", "store", "unlock"}

Event(op, fn, outcome) ==
    [op |-> op, fn |-> fn, outcome |-> outcome, args |-> <<>>, kwargs |-> NoKwargs,
     resolved |-> {}, factories |-> {}, error |-> "None", live |-> {}, exited |-> <<>>,
     got |-> {}, made |-> {}, before |-> {}, given |-> [args |-> <<>>, kwargs |-> NoKwargs]]

CallEvent(frame, outcome) ==
    [Event("call", frame.fn, outcome) EXCEPT
        !.args = frame.args, !.kwargs = frame.kwargs, !.resolved = frame.resolved,
        !.given = frame.given]

Objects(kwargs) == {kwargs[n].id : n \in {n \in ParamNames : kwargs[n].tag = "object"}}

NoScope == [active |-> FALSE, factories |-> {}, finished |-> {}, used |-> {}, got |-> {}]

EntryEvent(t, frame, outcome) ==
    [Event("entry", "entry", outcome) EXCEPT
        !.factories = frame.factories, !.error = frame.error, !.live = frame.live,
        !.exited = frame.exited, !.got = scope[t].got, !.made = Used \ scope[t].used,
        !.before = scope[t].finished]

\* A top-level operation of thread t ends: its event is logged; a call inside
\* an entry block adds what it resolved to the block; the block's end closes it.
Finish(t, event) ==
    /\ log' = [log EXCEPT ![t] = Append(@, event)]
    /\ scope' = [scope EXCEPT ![t] =
            IF event.op = "entry" THEN NoScope
            ELSE IF @.active /\ event.outcome = "ok"
                 THEN [@ EXCEPT !.got = @ \cup Objects(event.kwargs)]
                 ELSE @]

\* a binder that drops the value it resolved
bind_none(frame, value) ==
    LET name == Parameters(frame)[frame.i].name
    IN [frame EXCEPT !.kwargs = [@ EXCEPT ![name] = None],
                     !.resolved = @ \cup {name},
                     !.i = @ + 1]

\* The value of `_get(requirement)` is bound: kwargs[parameter.name] = value (line 280).
bind(frame, value) ==
    LET name == Parameters(frame)[frame.i].name
    IN [frame EXCEPT !.kwargs = [@ EXCEPT ![name] = value],
                     !.resolved = @ \cup {name},
                     !.i = @ + 1]

\* An exception leaves the frames of a thread, innermost first.  A _get frame
\* inside `with definition.lock` releases the lock.  A __call__ frame catches a
\* LookupError of its _get (line 277) and asks _get_extra, which returns a
\* value or raises LookupError again.  `bottom` is the outermost frame left.
RECURSIVE unwind(_, _, _, _)
unwind(stk, error, locks, bottom) ==
    IF stk = <<>> THEN [stack |-> <<>>, error |-> error, locks |-> locks, bottom |-> bottom]
    ELSE LET frame == stk[Len(stk)]
             r == _get_extra(plugins, complete(Parameters(frame)[frame.i]))
         IN IF frame.kind = "_get"
            THEN unwind(Rest(stk), error,
                        IF frame.pc \in Locked THEN locks \cup {frame.d} ELSE locks, frame)
            ELSE IF frame.kind = "__call__" /\ error = "LookupError" /\ ~r.raised
            THEN [stack |-> Append(Rest(stk), bind(frame, r.value)), error |-> "None",
                  locks |-> locks, bottom |-> frame]
            ELSE unwind(Rest(stk), error, locks, frame)

\* `raise error` in the innermost frame of thread t, whose frames are stk.
Throw(t, stk, error) ==
    LET u == unwind(stk, error, {}, stk[Len(stk)])
    IN /\ stack' = [stack EXCEPT ![t] = u.stack]
       /\ _lock' = [d \in DOMAIN _lock |-> IF d \in u.locks THEN "free" ELSE _lock[d]]
       /\ IF u.error = "None" THEN UNCHANGED <<log, scope>>
          ELSE IF u.bottom.kind = "release" THEN Finish(t, EntryEvent(t, u.bottom, u.error))
          ELSE Finish(t, CallEvent(u.bottom, u.error))

\* the thread goes on with frames stk
Goto(t, stk) ==
    /\ stack' = [stack EXCEPT ![t] = stk]
    /\ UNCHANGED <<_lock, log, scope>>

SetTop(t, frame) == Goto(t, Append(Rest(stack[t]), frame))

\* ------------------------------------------------------------ managers
\* The number the next context manager gets.
NextId == Cardinality(Used) + 1

\* contextlib's _GeneratorContextManager.__exit__(type, error, tb) on manager m
\* of function fn: the generator's new state and what the call raises.  A
\* generator at its yield runs its cleanup (the factories keep it in a
\* finally block), which may raise; one that has not started is run to its
\* yield ("generator didn't stop") or, with an error thrown in, ends at once;
\* an ended one does nothing.
__exit__(m, error) ==
    LET fn == Functions[definitions[managers[m].d].fn]
        state == managers[m].state
    IN IF state = "suspended"
       THEN [state |-> "finished", error |-> error,
             raises |-> IF fn.closes = "raises" THEN "TeardownError" ELSE "None"]
       ELSE IF state = "created" /\ error = "None"
       THEN IF fn.raises
            THEN [state |-> "aborted", error |-> managers[m].error, raises |-> "FactoryError"]
            ELSE [state |-> "suspended", error |-> managers[m].error, raises |-> "RuntimeError"]
       ELSE IF state = "created"
       THEN [state |-> "aborted", error |-> managers[m].error, raises |-> "None"]
       ELSE [state |-> state, error |-> managers[m].error, raises |-> "None"]

\* _GeneratorContextManager.__enter__() on manager m: next(generator).
__enter__(m) ==
    LET fn == Functions[definitions[managers[m].d].fn]
        state == managers[m].state
    IN IF state = "created"
       THEN IF fn.raises THEN [state |-> "aborted", raises |-> "FactoryError"]
            ELSE [state |-> "suspended", raises |-> "None"]
       ELSE IF state = "suspended"
       THEN [state |-> "finished",
             raises |-> IF fn.closes = "raises" THEN "TeardownError" ELSE "RuntimeError"]
       ELSE [state |-> state, raises |-> "RuntimeError"]

\* ------------------------------------------------------------ scheduling
Running(t) == pending = <<>> /\ cur \in {t, "any"}

Idle(t) == stack[t] = <<>>

At(t, kind, pc) == Running(t) /\ ~Idle(t) /\ Top(t).kind = kind /\ Top(t).pc = pc

Count(events, op) == Cardinality({i \in 1..Len(events) : events[i].op = op})

\* the calls thread t has begun, and the entry blocks
CallsOf(t) ==
    Count(log[t], "call") + (IF ~Idle(t) /\ stack[t][1].kind = "__call__" THEN 1 ELSE 0)

ScopesOf(t) == Count(log[t], "entry") + (IF scope[t].active THEN 1 ELSE 0)

\* the calls, and the entry blocks, begun by the threads in S
RECURSIVE CallsIn(_)
CallsIn(S) == IF S = {} THEN 0 ELSE LET t == CHOOSE x \in S : TRUE IN CallsOf(t) + CallsIn(S \ {t})

RECURSIVE ScopesIn(_)
ScopesIn(S) == IF S = {} THEN 0 ELSE LET t == CHOOSE x \in S : TRUE IN ScopesOf(t) + ScopesIn(S \ {t})

CallsBegun == CallsIn(Threads)

ScopesBegun == ScopesIn(Threads)

\* Injector.define: the program's next registration.
Define ==
    /\ pending # <<>>
    /\ definitions' = define(definitions, Head(pending).scope, Head(pending).name, Head(pending).fn)
    /\ pending' = Tail(pending)
    /\ defined' = Append(defined, Head(pending))
    /\ UNCHANGED <<plugins, menu, rooted, _instance, _manager, _lock, managers, stack, scope, log, cur, found>>

\* Context.run: the program goes on in a second, new context.
Switch(t) ==
    /\ pending = <<>>
    /\ cur = "t1" /\ t = "t2"
    /\ Idle(cur) /\ ~scope[cur].active
    /\ cur' = t
    /\ UNCHANGED <<definitions, plugins, pending, defined, menu, rooted, _instance, _manager, _lock,
                   managers, stack, scope, log, found>>

\* ------------------------------------------------------------ Injectable.__call__
\* The program calls an injectable function.
Call(t, c) ==
    /\ Running(t) /\ Idle(t)
    /\ CallsBegun < MaxCalls
    /\ c \in menu.calls
    /\ Goto(t, <<[Frame("__call__", "param", c.fn, 0) EXCEPT
            !.args = c.args, !.kwargs = c.kwargs, !.given = [args |-> c.args, kwargs |-> c.kwargs]]>>)
    /\ UNCHANGED <<definitions, plugins, pending, defined, menu, rooted, _instance, _manager, managers, cur, found>>

\* Whether the loop of __call__ leaves the parameter alone: its default is no
\* Requirement (line 255), or the caller supplied it (line 274).
skips(frame) ==
    LET parameter == Parameters(frame)[frame.i]
    IN \/ parameter.default = NoRequirement
       \/ supplied(parameter, frame.i - 1, frame.args, frame.kwargs) # void

\* lines 252-274: a parameter that needs no injection.
Skip(t) ==
    /\ At(t, "__call__", "param")
    /\ Top(t).i <= Len(Parameters(Top(t)))
    /\ skips(Top(t))
    /\ SetTop(t, [Top(t) EXCEPT !.i = @ + 1])
    /\ UNCHANGED <<definitions, plugins, pending, defined, menu, rooted, _instance, _manager, managers, cur, found>>

\* lines 276 and 206-213: Injector._get up to its first test of the instance.
\* No type: the assert of _get_definition fails.  No definition: LookupError,
\* which __call__ catches.  Else the definition is found and either holds an
\* instance (line 213 is next) or not (line 215 is next).
_get(t) ==
    LET frame == Top(t)
        requirement == complete(Parameters(frame)[frame.i])
        d == _get_definition(definitions, requirement)
    IN /\ At(t, "__call__", "param")
       /\ frame.i <= Len(Parameters(frame))
       /\ ~skips(frame)
       /\ IF requirement.type = {} THEN Throw(t, stack[t], "AssertionError")
          ELSE IF d = 0 THEN Throw(t, stack[t], "LookupError")
          ELSE Goto(t, Append(stack[t],
                    Frame("_get", IF Truthy(instance(d, t)) THEN "return" ELSE "lock", frame.fn, d)))
       /\ UNCHANGED <<definitions, plugins, pending, defined, menu, rooted, _instance, _manager, managers, cur, found>>

\* the value of _get goes to the __call__ frame below it
Return(t, value) ==
    Goto(t, Append(Rest(Rest(stack[t])), bind(stack[t][Len(stack[t]) - 1], value)))

\* line 213: return definition.instance
ReturnLive(t) ==
    /\ At(t, "_get", "return")
    /\ Return(t, instance(Top(t).d, t))
    /\ UNCHANGED <<definitions, plugins, pending, defined, menu, rooted, _instance, _manager, managers, cur, found>>

\* line 215: with definition.lock
Acquire(t) ==
    /\ At(t, "_get", "lock")
    /\ _lock[Top(t).d] = "free"
    /\ _lock' = [_lock EXCEPT ![Top(t).d] = t]
    /\ stack' = [stack EXCEPT ![t] = Append(Rest(@), [Top(t) EXCEPT !.pc = "recheck"])]
    /\ UNCHANGED <<definitions, plugins, pending, defined, menu, rooted, _instance, _manager, managers,
                   scope, log, cur, found>>

\* a second test that never finds the instance
Recheck_blind(t) ==
    /\ At(t, "_get", "recheck")
    /\ SetTop(t, [Top(t) EXCEPT !.pc = "factory"])
    /\ UNCHANGED <<definitions, plugins, pending, defined, menu, rooted, _instance, _manager, managers, cur, found>>

\* line 216: if not definition.instance
Recheck(t) ==
    /\ At(t, "_get", "recheck")
    /\ SetTop(t, [Top(t) EXCEPT !.pc = IF Truthy(instance(Top(t).d, t)) THEN "unlock" ELSE "factory"])
    /\ UNCHANGED <<definitions, plugins, pending, defined, menu, rooted, _instance, _manager, managers, cur, found>>

\* lines 113-115 (141-143): the manager the factory returns is stored.
created(t, d, m, kwargs) ==
    /\ m <= MaxObjs
    /\ managers' = [managers EXCEPT ![m] = [NoManager EXCEPT !.d = d, !.state = "created", !.kwargs = kwargs]]
    /\ _manager' = [_manager EXCEPT ![key(d, t)][d] = Manager(m)]

\* line 113 (141): manager = self._factory().  An injectable factory binds its
\* own parameters first; a plain one returns its manager at once.
Factory(t) ==
    LET frame == Top(t)
        fn == definitions[frame.d].fn
    IN /\ At(t, "_get", "factory")
       /\ IF Functions[fn].injectable
          THEN /\ Goto(t, Append(stack[t], Frame("__call__", "param", fn, frame.d)))
               /\ UNCHANGED <<managers, _manager>>
          ELSE /\ created(t, frame.d, NextId, NoKwargs)
               /\ SetTop(t, [frame EXCEPT !.pc = "__enter__", !.m = NextId])
       /\ UNCHANGED <<definitions, plugins, pending, defined, menu, rooted, _instance, cur, found>>

\* line 282 in a factory: the generator function is called with the bound
\* arguments and the manager is returned to enter().
InvokeFactory(t) ==
    LET frame == Top(t)
        parent == stack[t][Len(stack[t]) - 1]
    IN /\ At(t, "__call__", "param")
       /\ frame.i > Len(Parameters(frame))
       /\ frame.d # 0
       /\ created(t, frame.d, NextId, frame.kwargs)
       /\ Goto(t, Append(Rest(Rest(stack[t])), [parent EXCEPT !.pc = "__enter__", !.m = NextId]))
       /\ UNCHANGED <<definitions, plugins, pending, defined, menu, rooted, _instance, cur, found>>

\* line 282 at the top: the wrapped function runs with the bound arguments.
Invoke(t) ==
    /\ At(t, "__call__", "param")
    /\ Top(t).i > Len(Parameters(Top(t)))
    /\ Top(t).d = 0
    /\ stack' = [stack EXCEPT ![t] = <<>>]
    /\ Finish(t, CallEvent(Top(t), "ok"))
    /\ UNCHANGED <<definitions, plugins, pending, defined, menu, rooted, _instance, _manager, _lock, managers, cur, found>>

\* line 116 (144), right-hand side: manager.__enter__()
Enter(t) ==
    LET frame == Top(t)
        r == __enter__(frame.m)
    IN /\ At(t, "_get", "__enter__")
       /\ managers' = [managers EXCEPT ![frame.m].state = r.state]
       /\ IF r.raises = "None" THEN SetTop(t, [frame EXCEPT !.pc = "store"])
          ELSE Throw(t, stack[t], r.raises)
       /\ UNCHANGED <<definitions, plugins, pending, defined, menu, rooted, _instance, _manager, cur, found>>

\* line 116 (144), the assignment: self._instance = ...
Store(t) ==
    LET frame == Top(t)
    IN /\ At(t, "_get", "store")
       /\ _instance' = [_instance EXCEPT ![key(frame.d, t)][frame.d] = Object(frame.m)]
       /\ SetTop(t, [frame EXCEPT !.pc = "unlock"])
       /\ UNCHANGED <<definitions, plugins, pending, defined, menu, rooted, _manager, managers, cur, found>>

\* a `with` block that keeps the lock
Unlock_keep(t) ==
    /\ At(t, "_get", "unlock")
    /\ stack' = [stack EXCEPT ![t] = Append(Rest(@), [Top(t) EXCEPT !.pc = "final"])]
    /\ UNCHANGED <<definitions, plugins, pending, defined, menu, rooted, _instance, _manager, managers,
                   _lock, scope, log, cur, found>>

\* the end of `with definition.lock`
Unlock(t) ==
    /\ At(t, "_get", "unlock")
    /\ _lock' = [_lock EXCEPT ![Top(t).d] = "free"]
    /\ stack' = [stack EXCEPT ![t] = Append(Rest(@), [Top(t) EXCEPT !.pc = "final"])]
    /\ UNCHANGED <<definitions, plugins, pending, defined, menu, rooted, _instance, _manager, managers,
                   scope, log, cur, found>>

\* line 219: return definition.instance
ReturnFinal(t) ==
    /\ At(t, "_get", "final")
    /\ Return(t, instance(Top(t).d, t))
    /\ UNCHANGED <<definitions, plugins, pending, defined, menu, rooted, _instance, _manager, managers, cur, found>>

\* ------------------------------------------------------------ entry and release
\* a release that ignores its filter
selected_all(factories, d) == TRUE

\* line 190: not factories or definition._factory in factories.  A factory is
\* named by the index of the definition define() made for it.
selected(factories, d) == factories = {} \/ d \in factories

Filters == {{}} \cup {{d} : d \in Defs}

\* the managers of the selected definitions that hold a live instance for thread t
held(t, factories) ==
    {_manager[key(d, t)][d].id :
        d \in {x \in Defs : /\ selected(factories, x)
                            /\ _manager[key(x, t)][x] # None
                            /\ Truthy(_instance[key(x, t)][x])}}

\* lines 193-196: with injector.entry(release_factories)
EntryBegin(t, factories) ==
    /\ Running(t) /\ Idle(t)
    /\ ~scope[t].active
    /\ ScopesBegun < menu.blocks
    /\ factories \in Filters
    /\ scope' = [scope EXCEPT ![t] =
            [active |-> TRUE, factories |-> factories,
             finished |-> {m \in Used : managers[m].state = "finished"},
             used |-> Used, got |-> {}]]
    /\ UNCHANGED <<definitions, plugins, pending, defined, menu, rooted, _instance, _manager, _lock,
                   managers, stack, log, cur, found>>

\* lines 197-201: the block ends, normally or with `error` raised in it, and
\* entry calls Injector.release.
EntryEnd(t, error) ==
    /\ Running(t) /\ Idle(t)
    /\ scope[t].active
    /\ error \in {"None", "BodyError"}
    /\ Goto(t, <<[Frame("release", "visit", "entry", 0) EXCEPT
            !.factories = scope[t].factories, !.error = error,
            !.live = held(t, scope[t].factories)]>>)
    /\ UNCHANGED <<definitions, plugins, pending, defined, menu, rooted, _instance, _manager, managers, cur, found>>

\* lines 189-190 and the test of definition.exit (lines 119, 147-149): the
\* next definition of the pass; one that is selected and has a manager is exited.
Visit(t) ==
    LET frame == Top(t)
        d == frame.i
    IN /\ At(t, "release", "visit")
       /\ d <= Len(definitions)
       /\ IF selected(frame.factories, d) /\ _manager[key(d, t)][d] # None
          THEN SetTop(t, [frame EXCEPT !.pc = "__exit__", !.m = _manager[key(d, t)][d].id])
          ELSE SetTop(t, [frame EXCEPT !.i = @ + 1])
       /\ UNCHANGED <<definitions, plugins, pending, defined, menu, rooted, _instance, _manager, managers, cur, found>>

\* lines 122 (SingletonDefinition) and 152-154 (ContextDefinition):
\* manager.__exit__(error_type, error, tb).  The singleton reads self._manager
\* again; an exception leaves SingletonDefinition.exit at once and reaches the
\* finally block of ContextDefinition.exit.
Exit(t) ==
    LET frame == Top(t)
        d == frame.i
        now == _manager[key(d, t)][d]
        m == IF definitions[d].scope = "singleton" THEN now.id ELSE frame.m
        r == __exit__(m, frame.error)
        after == [frame EXCEPT !.exited = Append(@, <<m, frame.error>>), !.m = m]
    IN /\ At(t, "release", "__exit__")
       /\ IF definitions[d].scope = "singleton" /\ now = None
          THEN /\ Throw(t, stack[t], "AttributeError")
               /\ UNCHANGED managers
          ELSE /\ managers' = [managers EXCEPT ![m].state = r.state, ![m].error = r.error,
                                               ![m].exits = IF @ < 2 THEN @ + 1 ELSE @]
               /\ IF r.raises # "None" /\ definitions[d].scope = "singleton"
                  THEN Throw(t, Append(Rest(stack[t]), after), r.raises)
                  ELSE SetTop(t, [after EXCEPT !.pc = "clear", !.raising = r.raises])
       /\ UNCHANGED <<definitions, plugins, pending, defined, menu, rooted, _instance, _manager, cur, found>>

\* lines 123 and 155: the manager is cleared
ClearManager(t) ==
    LET frame == Top(t)
    IN /\ At(t, "release", "clear")
       /\ _manager' = [_manager EXCEPT ![key(frame.i, t)][frame.i] = None]
       /\ SetTop(t, [frame EXCEPT !.pc = "clear instance"])
       /\ UNCHANGED <<definitions, plugins, pending, defined, menu, rooted, _instance, managers, cur, found>>

\* lines 124 and 156: the instance is cleared; the finally block of
\* ContextDefinition.exit ends and an exception of __exit__ goes on.
ClearInstance(t) ==
    LET frame == Top(t)
    IN /\ At(t, "release", "clear instance")
       /\ _instance' = [_instance EXCEPT ![key(frame.i, t)][frame.i] = None]
       /\ IF frame.raising # "None" THEN Throw(t, stack[t], frame.raising)
          ELSE SetTop(t, [frame EXCEPT !.pc = "visit", !.i = @ + 1])
       /\ UNCHANGED <<definitions, plugins, pending, defined, menu, rooted, _manager, managers, cur, found>>

\* lines 199 and 201: release returned; entry re-raises the error of the block
\* or ends.
Released(t) ==
    LET frame == Top(t)
    IN /\ At(t, "release", "visit")
       /\ frame.i > Len(definitions)
       /\ stack' = [stack EXCEPT ![t] = <<>>]
       /\ Finish(t, EntryEvent(t, frame, IF frame.error # "None" THEN frame.error ELSE "ok"))
       /\ UNCHANGED <<definitions, plugins, pending, defined, menu, rooted, _instance, _manager, _lock, managers, cur, found>>

\* ------------------------------------------------------------ specifications
Step(t) ==
    \/ \E c \in menu.calls : Call(t, c)
    \/ Skip(t)
    \/ _get(t)
    \/ ReturnLive(t)
    \/ Acquire(t)
    \/ Recheck(t)
    \/ Factory(t)
    \/ InvokeFactory(t)
    \/ Invoke(t)
    \/ Enter(t)
    \/ Store(t)
    \/ Unlock(t)
    \/ ReturnFinal(t)
    \/ \E factories \in Filters : EntryBegin(t, factories)
    \/ \E error \in {"None", "BodyError"} : EntryEnd(t, error)
    \/ Visit(t)
    \/ Exit(t)
    \/ ClearManager(t)
    \/ ClearInstance(t)
    \/ Released(t)

D(sc, fn) == [scope |-> sc, name |-> NoName, fn |-> fn]

C(fn, args, kwargs) == [fn |-> fn, args |-> args, kwargs |-> kwargs]

Kw(name, value) == [NoKwargs EXCEPT ![name] = value]

\* A program: the registrations it makes, then the calls it may make and the
\* number of entry blocks it may open.
P(defines, calls, blocks) == [defines |-> defines, calls |-> calls, blocks |-> blocks]

GetBase == C("get_base", <<>>, NoKwargs)

GetPair == C("get_pair", <<>>, NoKwargs)

GetOuter == C("get_outer", <<>>, NoKwargs)

Method == C("method", <<SelfObj>>, NoKwargs)

Programs ==
    {P(<<D("singleton", "sub_def")>>, {Method}, MaxScopes),
     P(<<D("context", "sub_def")>>, {GetBase}, MaxScopes),
     P(<<D("transient", "sub_def")>>, {GetBase}, MaxScopes),
     P(<<D("request", "sub_def")>>, {GetBase}, MaxScopes),
     P(<<D("context", "sub_def"), D("context", "other_def")>>, {GetPair}, MaxScopes),
     P(<<D("context", "leaky_def"), D("context", "sub_def")>>, {GetPair}, MaxScopes),
     P(<<D("singleton", "leaky_def"), D("singleton", "sub_def")>>, {GetPair}, MaxScopes),
     P(<<D("context", "broken_def"), D("singleton", "sub_def")>>, {GetPair}, MaxScopes),
     P(<<D("singleton", "sub_def"), D("singleton", "outer_def")>>, {GetOuter}, MaxScopes),
     P(<<D("context", "sub_def"), D("context", "outer_def")>>, {GetOuter}, MaxScopes),
     P(<<D("singleton", "sub_def"), D("context", "outer_def")>>, {GetOuter}, MaxScopes),
     P(<<D("context", "sub_def"), D("singleton", "outer_def")>>, {GetOuter}, MaxScopes)}

InitWith(program, plugs, context) ==
    /\ definitions = <<>>
    /\ plugins = plugs
    /\ pending = program.defines
    /\ defined = <<>>
    /\ menu = [calls |-> program.calls, blocks |-> program.blocks]
    /\ _instance = [k \in Keys |-> [d \in 1..MaxDefs |-> None]]
    /\ _manager = [k \in Keys |-> [d \in 1..MaxDefs |-> None]]
    /\ _lock = [d \in 1..MaxDefs |-> "free"]
    /\ managers = [m \in 1..MaxObjs |-> NoManager]
    /\ stack = [t \in Threads |-> <<>>]
    /\ scope = [t \in Threads |-> NoScope]
    /\ log = [t \in Threads |-> <<>>]
    /\ cur = context
    /\ found = [requirement |-> NoRequirement, parameter |-> Param("-", "-", {}, NoRequirement),
                definition |-> 0]
    /\ rooted = FALSE

\* One thread runs the program, in one context at a time.
Init == \E program \in Programs : InitWith(program, <<>>, "t1")

Next == Define \/ (\E t \in Threads : Switch(t)) \/ (\E t \in Threads : Step(t))

Spec == Init /\ [][Next]_vars

\* ------------------------------------------------------------ threads
\* Two threads run the program at once, each in the context it was started in;
\* the program has one entry block.
ThreadPrograms ==
    {P(<<D("singleton", "sub_def")>>, {Method}, 1),
     P(<<D("singleton", "sub_def"), D("singleton", "outer_def")>>, {GetOuter}, 1),
     P(<<D("singleton", "broken_def"), D("singleton", "sub_def")>>, {GetPair}, 1),
     P(<<D("context", "sub_def"), D("singleton", "other_def")>>, {GetPair}, 1)}

InitThreads == \E program \in ThreadPrograms : InitWith(program, <<>>, "any")

NextThreads == Define \/ (\E t \in Threads : Step(t))

SpecThreads == InitThreads /\ [][NextThreads]_vars

\* ------------------------------------------------------------ lookup
DefinitionNames == {NoName, "svc"}

Factories == {"sub_def", "base_def", "other_def"}

\* Injector.define with any scope, name and factory
Register(sc, name, fn) ==
    /\ Len(defined) < MaxDefs
    /\ definitions' = define(definitions, sc, name, fn)
    /\ defined' = Append(defined, Definition(sc, name, fn))
    /\ UNCHANGED <<plugins, pending, menu, rooted, _instance, _manager, _lock, managers, stack, scope,
                   log, cur, found>>

\* the parameters whose completed requirement is looked up
LookupParameters ==
    {Param(name, "POSITIONAL_OR_KEYWORD", annotation, requirement) :
        name \in {"svc", "a"}, annotation \in {{"Base"}, {"Sub", "Other"}},
        requirement \in {inject(NoName, {}), inject("svc", {"Sub"})}}

\* Injector._get_definition(requirement) for the requirement of a parameter
Lookup(parameter) ==
    /\ found' = [requirement |-> complete(parameter), parameter |-> parameter,
                 definition |-> _get_definition(definitions, complete(parameter))]
    /\ UNCHANGED <<definitions, plugins, pending, defined, menu, rooted, _instance, _manager, _lock,
                   managers, stack, scope, log, cur>>

InitLookup == InitWith(P(<<>>, {}, 0), <<>>, "t1")

NextLookup ==
    \/ \E sc \in {"singleton", "context"}, name \in DefinitionNames, fn \in Factories :
          Register(sc, name, fn)
    \/ \E parameter \in LookupParameters : Lookup(parameter)

SpecLookup == InitLookup /\ [][NextLookup]_vars

\* ------------------------------------------------------------ binding
Bind(t) ==
    \/ \E c \in menu.calls : Call(t, c)
    \/ Skip(t)
    \/ _get(t)
    \/ ReturnLive(t)
    \/ Acquire(t)
    \/ Recheck(t)
    \/ Factory(t)
    \/ InvokeFactory(t)
    \/ Enter(t)
    \/ Store(t)
    \/ Unlock(t)
    \/ ReturnFinal(t)
    \/ Invoke(t)

BindPrograms ==
    {P(<<D("singleton", "sub_def")>>,
       {GetBase, C("get_base", <<Explicit>>, NoKwargs), C("get_base", <<>>, Kw("svc", Explicit)),
        Method, C("method", <<SelfObj, Explicit>>, NoKwargs), C("method", <<SelfObj>>, Kw("svc", Explicit)),
        C("static", <<Explicit>>, NoKwargs), C("static", <<Explicit>>, Kw("svc", Explicit))}, 0),
     P(<<D("context", "sub_def")>>,
       {GetPair, C("get_pair", <<Explicit>>, NoKwargs), C("get_pair", <<>>, Kw("a", Explicit)),
        C("get_pair", <<Explicit>>, Kw("a", Explicit))}, 0),
     P(<<D("singleton", "outer_def"), D("context", "sub_def")>>, {GetOuter}, 0),
     P(<<D("singleton", "outer_def")>>, {GetOuter, C("get_outer_default", <<>>, NoKwargs)}, 0),
     P(<<D("singleton", "sub_def")>>,
       {C("get_untyped", <<>>, NoKwargs), C("get_untyped_default", <<>>, NoKwargs)}, 0),
     P(<<>>,
       {C("get_undefined", <<>>, NoKwargs), C("get_undefined", <<Explicit>>, NoKwargs),
        C("get_default", <<>>, NoKwargs), C("get_default", <<>>, Kw("svc", Explicit))}, 0)}

PluginLists ==
    {<<>>, <<Plugin(TRUE, None)>>, <<Plugin(TRUE, None), Plugin(TRUE, None)>>,
     <<Plugin(FALSE, Empty)>>, <<Plugin(TRUE, None), Plugin(FALSE, Provided)>>}

InitBind == \E program \in BindPrograms, plugs \in PluginLists : InitWith(program, plugs, "t1")

NextBind == Define \/ (\E t \in Threads : Bind(t))

SpecBind == InitBind /\ [][NextBind]_vars

\* ------------------------------------------------------------ branching
\* copy_context().run: the program goes on in a copy of its context; the copy
\* starts with the values the ContextVars have in the parent.
Branch(t) ==
    /\ pending = <<>>
    /\ cur = "t1" /\ t = "t2"
    /\ Idle(cur) /\ ~scope[cur].active
    /\ cur' = t
    /\ _instance' = [_instance EXCEPT ![t] = _instance[cur]]
    /\ _manager' = [_manager EXCEPT ![t] = _manager[cur]]
    /\ UNCHANGED <<definitions, plugins, pending, defined, menu, rooted, _lock, managers, stack, scope,
                   log, found>>

BranchPrograms ==
    {P(<<D("context", "sub_def")>>, {Method}, MaxScopes),
     P(<<D("context", "sub_def"), D("context", "outer_def")>>, {GetOuter}, MaxScopes),
     P(<<D("context", "leaky_def"), D("context", "sub_def")>>, {GetPair}, MaxScopes)}

InitBranch == \E program \in BranchPrograms : InitWith(program, <<>>, "t1")

NextBranch == Define \/ (\E t \in Threads : Branch(t)) \/ (\E t \in Threads : Step(t))

SpecBranch == InitBranch /\ [][NextBranch]_vars

\* ------------------------------------------------------------ locks
\* Threads that are scheduled again and again: factories that need other
\* definitions, a factory that raises inside the lock, and a factory that
\* needs a definition of its own type.
LockPrograms ==
    {P(<<D("singleton", "sub_def"), D("singleton", "outer_def")>>, {GetOuter}, 1),
     P(<<D("singleton", "broken_def"), D("singleton", "sub_def")>>, {GetPair}, 0),
     P(<<D("context", "sub_def")>>, {Method}, 0),
     P(<<D("singleton", "loop_def")>>, {GetOuter}, 0)}

InitLocks == \E program \in LockPrograms : InitWith(program, <<>>, "any")

NextLocks == Define \/ (\E t \in Threads : Step(t))

SpecLocks == InitLocks /\ [][NextLocks]_vars /\ \A t \in Threads : WF_vars(Step(t))

\* ------------------------------------------------------------ dipy.Container
\* Container.define(scope)(function): the scope is asserted to be 'context' or
\* 'singleton'; the definition is registered without a name.
ContainerDefine ==
    /\ pending # <<>>
    /\ definitions' = IF Head(pending).scope \in {"context", "singleton"}
                      THEN Append(definitions, Definition(Head(pending).scope, NoName, Head(pending).fn))
                      ELSE definitions
    /\ pending' = Tail(pending)
    /\ defined' = Append(defined, Head(pending))
    /\ UNCHANGED <<plugins, menu, rooted, _instance, _manager, _lock, managers, stack, scope, log, cur, found>>

\* Container._get_definition(cls): the first definition whose return
\* annotation is a subclass of cls (every name is None); 0 for none.  The
\* factories are annotated with the class they yield; issubclass raises
\* TypeError for an Iterator[...] annotation.
RECURSIVE container_scan(_, _, _)
container_scan(defs, cls, i) ==
    IF i > Len(defs) THEN 0
    ELSE IF issubclass(type(defs[i]), cls) THEN i
    ELSE container_scan(defs, cls, i + 1)

Container_get_definition(defs, cls) == container_scan(defs, cls, 1)

\* the classes the program asks the container for
RootClasses == {"Base", "Other"}

\* the context definitions that hold a manager or an instance in context t
stored(t) ==
    {d \in Defs : /\ definitions[d].scope = "context"
                  /\ (_manager[t][d] # None \/ _instance[t][d] # None)}

RootEvent(t, frame, outcome) ==
    [Event("root", "rootify", outcome) EXCEPT
        !.error = frame.error, !.exited = frame.exited, !.got = scope[t].got,
        !.made = Used \ scope[t].used, !.before = scope[t].finished]

\* Container.get(cls) returned `value` of definition d to thread t, or raised.
\* In the rooted function an exception ends the function's body; at the top of
\* the program it ends the call of get.
Got(t, cls, d, value, error) ==
    LET top == stack[t][1]
        ctx == IF d # 0 /\ definitions[d].scope = "context" /\ value.tag = "object"
               THEN {value.id} ELSE {}
    IN IF ~Idle(t) /\ top.kind = "rootify"
       THEN /\ stack' = [stack EXCEPT ![t] =
                   <<[top EXCEPT !.resolved = @ \cup {cls},
                                 !.pc = IF error = "None" THEN "function" ELSE "exit",
                                 !.error = error]>>]
            /\ scope' = [scope EXCEPT ![t].got = @ \cup ctx]
            /\ UNCHANGED log
       ELSE /\ stack' = [stack EXCEPT ![t] = <<>>]
            /\ log' = [log EXCEPT ![t] =
                   Append(@, [Event("get", cls, IF error = "None" THEN "ok" ELSE error) EXCEPT !.got = ctx])]
            /\ UNCHANGED scope

\* Container.get(cls), lines 124-133, up to `manager = self.factory()` and the
\* assignment of the manager in enter (lines 39-41, 65-67).  The program calls
\* it at its top, in the caller's context, or in the rooted function.
ContainerGet(t, cls) ==
    LET d == Container_get_definition(definitions, cls)
        frame == Frame("get", "__enter__", cls, d)
        base == IF Idle(t) THEN <<Frame("get", "top", cls, 0)>> ELSE stack[t]
    IN /\ Running(t)
       /\ cls \in RootClasses
       /\ \/ t = "t1" /\ Idle(t) /\ Count(log[t], "get") < MaxCalls
          \/ At(t, "rootify", "function") /\ cls \notin Top(t).resolved
       /\ IF d = 0
          THEN /\ Got(t, cls, 0, None, "LookupError")
               /\ UNCHANGED <<managers, _manager>>
          ELSE IF Truthy(instance(d, t))
          THEN /\ Got(t, cls, d, instance(d, t), "None")
               /\ UNCHANGED <<managers, _manager>>
          ELSE /\ created(t, d, NextId, NoKwargs)
               /\ stack' = [stack EXCEPT ![t] = Append(base, [frame EXCEPT !.m = NextId])]
               /\ UNCHANGED <<log, scope>>
       /\ UNCHANGED <<definitions, plugins, pending, defined, menu, rooted, _instance, _lock, cur, found>>

\* lines 42 and 68: the instance is manager.__enter__(); line 133 returns it.
ContainerEnter(t) ==
    LET frame == Top(t)
        r == __enter__(frame.m)
    IN /\ At(t, "get", "__enter__")
       /\ managers' = [managers EXCEPT ![frame.m].state = r.state]
       /\ IF r.raises = "None"
          THEN /\ _instance' = [_instance EXCEPT ![key(frame.d, t)][frame.d] = Object(frame.m)]
               /\ Got(t, frame.fn, frame.d, Object(frame.m), "None")
          ELSE /\ Got(t, frame.fn, frame.d, None, r.raises)
               /\ UNCHANGED _instance
       /\ UNCHANGED <<definitions, plugins, pending, defined, menu, rooted, _manager, _lock, cur, found>>

\* line 146: container.root(function) is applied; copy_context() is evaluated
\* here, once, and the copy starts with the values of the caller's context.
Root ==
    /\ pending = <<>>
    /\ ~rooted
    /\ cur = "t1" /\ Idle("t1")
    /\ rooted' = TRUE
    /\ _instance' = [_instance EXCEPT !["t2"] = _instance["t1"]]
    /\ _manager' = [_manager EXCEPT !["t2"] = _manager["t1"]]
    /\ UNCHANGED <<definitions, plugins, pending, defined, menu, _lock, managers, stack, scope,
                   log, cur, found>>

\* the rooted function is called: the copy runs rootify (line 146), which
\* calls the function (line 140)
RootCall ==
    /\ rooted
    /\ cur = "t1" /\ Idle("t1")
    /\ Count(log["t2"], "root") < MaxCalls
    /\ cur' = "t2"
    /\ stack' = [stack EXCEPT !["t2"] = <<Frame("rootify", "function", "rootify", 0)>>]
    /\ scope' = [scope EXCEPT !["t2"] =
            [active |-> TRUE, factories |-> {},
             finished |-> {m \in Used : managers[m].state = "finished"},
             used |-> Used, got |-> {}]]
    /\ UNCHANGED <<definitions, plugins, pending, defined, menu, rooted, _instance, _manager,
                   _lock, managers, log, found>>

\* the function calls the rooted function again: the copy is already entered
\* and Context.run raises RuntimeError in the function's body
Reenter(t) ==
    /\ At(t, "rootify", "function")
    /\ stack' = [stack EXCEPT ![t] = <<[Top(t) EXCEPT !.pc = "exit", !.error = "RuntimeError"]>>]
    /\ UNCHANGED <<definitions, plugins, pending, defined, menu, rooted, _instance, _manager,
                   _lock, managers, scope, log, cur, found>>

\* lines 139-144: the function returns or raises; the finally block begins
RootEnd(t, error) ==
    /\ At(t, "rootify", "function")
    /\ error \in {"None", "BodyError"}
    /\ stack' = [stack EXCEPT ![t] = <<[Top(t) EXCEPT !.pc = "exit", !.error = error]>>]
    /\ UNCHANGED <<definitions, plugins, pending, defined, menu, rooted, _instance, _manager,
                   _lock, managers, scope, log, cur, found>>

\* the rooted call is over: its event is logged, with the context definitions
\* that still hold something in the call's context, and the caller goes on
RootDone(t, frame, outcome) ==
    /\ stack' = [stack EXCEPT ![t] = <<>>]
    /\ log' = [log EXCEPT ![t] = Append(@, [RootEvent(t, frame, outcome) EXCEPT !.live = stored(t)])]
    /\ scope' = [scope EXCEPT ![t] = NoScope]
    /\ cur' = "t1"

\* Container.exit('context'), lines 119-122, for the next definition, with
\* _ContextDefinition.exit, lines 70-77: the manager, if there is one, is
\* exited with (None, None, None); an exception of it leaves exit, the loop and
\* rootify; otherwise both ContextVars are set to None.
ContainerExit(t) ==
    LET frame == Top(t)
        d == frame.i
        manager == _manager[t][d]
        r == __exit__(manager.id, "None")
        after == [frame EXCEPT !.exited = Append(@, <<manager.id, "None">>)]
    IN /\ At(t, "rootify", "exit")
       /\ d <= Len(definitions)
       /\ IF definitions[d].scope # "context"
          THEN /\ stack' = [stack EXCEPT ![t] = <<[frame EXCEPT !.i = @ + 1]>>]
               /\ UNCHANGED <<managers, _manager, _instance, log, scope, cur>>
          ELSE IF manager = None
          THEN /\ _instance' = [_instance EXCEPT ![t][d] = None]
               /\ stack' = [stack EXCEPT ![t] = <<[frame EXCEPT !.i = @ + 1]>>]
               /\ UNCHANGED <<managers, _manager, log, scope, cur>>
          ELSE /\ managers' = [managers EXCEPT ![manager.id].state = r.state,
                                               ![manager.id].error = r.error,
                                               ![manager.id].exits = IF @ < 2 THEN @ + 1 ELSE @]
               /\ IF r.raises # "None"
                  THEN /\ RootDone(t, after, r.raises)
                       /\ UNCHANGED <<_manager, _instance>>
                  ELSE /\ _manager' = [_manager EXCEPT ![t][d] = None]
                       /\ _instance' = [_instance EXCEPT ![t][d] = None]
                       /\ stack' = [stack EXCEPT ![t] = <<[after EXCEPT !.i = @ + 1]>>]
                       /\ UNCHANGED <<log, scope, cur>>
       /\ UNCHANGED <<definitions, plugins, pending, defined, menu, rooted, _lock, found>>

\* the finally block is over: the function's result or exception goes to the caller
RootReturn(t) ==
    LET frame == Top(t)
    IN /\ At(t, "rootify", "exit")
       /\ frame.i > Len(definitions)
       /\ RootDone(t, frame, IF frame.error # "None" THEN frame.error ELSE "ok")
       /\ UNCHANGED <<definitions, plugins, pending, defined, menu, rooted, _instance, _manager,
                      _lock, managers, found>>

\* the program calls container.exit(sc) itself, in the caller's context
ExitCall(t, sc) ==
    /\ Running(t) /\ t = "t1" /\ Idle(t)
    /\ pending = <<>>
    /\ sc \in {"singleton", "context"}
    /\ Count(log[t], "exit") < MaxScopes
    /\ stack' = [stack EXCEPT ![t] = <<Frame("exit", "exit", sc, 0)>>]
    /\ UNCHANGED <<definitions, plugins, pending, defined, menu, rooted, _instance, _manager,
                   _lock, managers, scope, log, cur, found>>

\* that call of container.exit ends, by returning or by the exception
ExitDone(t, frame, outcome) ==
    /\ stack' = [stack EXCEPT ![t] = <<>>]
    /\ log' = [log EXCEPT ![t] = Append(@, [Event("exit", frame.fn, outcome) EXCEPT !.exited = frame.exited])]

\* Container.exit(scope), lines 119-122, for the next definition.  A singleton
\* definition runs _InstanceDefinition.exit, lines 44-47: self._manager.__exit__
\* is called without a test, so a definition without a manager raises
\* AttributeError; a context definition runs _ContextDefinition.exit, lines 70-77.
ExitVisit(t) ==
    LET frame == Top(t)
        d == frame.i
        k == key(d, t)
        manager == _manager[k][d]
        r == __exit__(manager.id, "None")
        after == [frame EXCEPT !.exited = Append(@, <<manager.id, "None">>)]
    IN /\ At(t, "exit", "exit")
       /\ d <= Len(definitions)
       /\ IF definitions[d].scope # frame.fn
          THEN /\ stack' = [stack EXCEPT ![t] = <<[frame EXCEPT !.i = @ + 1]>>]
               /\ UNCHANGED <<managers, _manager, _instance, log>>
          ELSE IF manager = None /\ definitions[d].scope = "singleton"
          THEN /\ ExitDone(t, frame, "AttributeError")
               /\ UNCHANGED <<managers, _manager, _instance>>
          ELSE IF manager = None
          THEN /\ _instance' = [_instance EXCEPT ![k][d] = None]
               /\ stack' = [stack EXCEPT ![t] = <<[frame EXCEPT !.i = @ + 1]>>]
               /\ UNCHANGED <<managers, _manager, log>>
          ELSE /\ managers' = [managers EXCEPT ![manager.id].state = r.state,
                                               ![manager.id].error = r.error,
                                               ![manager.id].exits = IF @ < 2 THEN @ + 1 ELSE @]
               /\ IF r.raises # "None"
                  THEN /\ ExitDone(t, after, r.raises)
                       /\ UNCHANGED <<_manager, _instance>>
                  ELSE /\ _manager' = [_manager EXCEPT ![k][d] = None]
                       /\ _instance' = [_instance EXCEPT ![k][d] = None]
                       /\ stack' = [stack EXCEPT ![t] = <<[after EXCEPT !.i = @ + 1]>>]
                       /\ UNCHANGED log
       /\ UNCHANGED <<definitions, plugins, pending, defined, menu, rooted, _lock, scope, cur, found>>

\* the loop of Container.exit is over
ExitReturn(t) ==
    /\ At(t, "exit", "exit")
    /\ Top(t).i > Len(definitions)
    /\ ExitDone(t, Top(t), "ok")
    /\ UNCHANGED <<definitions, plugins, pending, defined, menu, rooted, _instance, _manager,
                   _lock, managers, scope, cur, found>>

RootStep(t) ==
    \/ \E cls \in RootClasses : ContainerGet(t, cls)
    \/ ContainerEnter(t)
    \/ Reenter(t)
    \/ \E error \in {"None", "BodyError"} : RootEnd(t, error)
    \/ ContainerExit(t)
    \/ RootReturn(t)

RootPrograms ==
    {P(<<D("context", "sub_def")>>, {}, 0),
     P(<<D("context", "sub_def"), D("context", "other_def")>>, {}, 0),
     P(<<D("singleton", "base_def"), D("context", "other_def")>>, {}, 0),
     P(<<D("context", "leaky_def"), D("context", "sub_def")>>, {}, 0),
     P(<<D("context", "broken_def"), D("context", "sub_def")>>, {}, 0)}

InitRoot == \E program \in RootPrograms : InitWith(program, <<>>, "t1")

NextRoot == ContainerDefine \/ Root \/ RootCall \/ (\E t \in Threads : RootStep(t))

SpecRoot == InitRoot /\ [][NextRoot]_vars

\* a program that resolves from the container and calls container.exit
ExitStep(t) ==
    \/ \E cls \in RootClasses : ContainerGet(t, cls)
    \/ ContainerEnter(t)
    \/ \E sc \in {"singleton", "context"} : ExitCall(t, sc)
    \/ ExitVisit(t)
    \/ ExitReturn(t)

ExitPrograms ==
    RootPrograms \cup {P(<<D("singleton", "base_def"), D("singleton", "leaky_def")>>, {}, 0),
                       P(<<D("singleton", "broken_def"), D("context", "sub_def")>>, {}, 0)}

InitExit == \E program \in ExitPrograms : InitWith(program, <<>>, "t1")

NextExit == ContainerDefine \/ (\E t \in Threads : ExitStep(t))

SpecExit == InitExit /\ [][NextExit]_vars

\* ------------------------------------------------------------ what the log says
Events(t, op) == {i \in 1..Len(log[t]) : log[t][i].op = op}

\* the parameters of an event's function that carry a Requirement
Injectables(event) ==
    {i \in 1..Len(Functions[event.fn].parameters) :
        Functions[event.fn].parameters[i].default # NoRequirement}

\* the definition lookup gives for parameter i of the event's function
DefinitionOf(event, i) ==
    _get_definition(definitions, complete(Functions[event.fn].parameters[i]))

\* the value the wrapped function received for parameter i
Received(event, i) ==
    LET parameter == Functions[event.fn].parameters[i]
    IN IF parameter.kind # "KEYWORD_ONLY" /\ i <= Len(event.args) THEN event.args[i]
       ELSE event.kwargs[parameter.name]

\* parameter i of a finished call was resolved from a definition of `sc` scope
ResolvedFrom(event, i, sc) ==
    /\ event.op = "call" /\ event.outcome = "ok"
    /\ i \in Injectables(event)
    /\ Functions[event.fn].parameters[i].name \in event.resolved
    /\ DefinitionOf(event, i) # 0
    /\ definitions[DefinitionOf(event, i)].scope = sc

\* no entry block of thread t ended between its events i and j
NoReleaseBetween(t, i, j) == \A k \in i..j : log[t][k].op # "entry"

\* ------------------------------------------------------------ claims
\* the managers the factory of definition d has returned
ManagersOf(d) == {m \in Used : managers[m].d = d}

\* the values finished calls received from definition d
ReceivedFrom(d) ==
    {Received(log[t][i], p) :
        <<t, i, p>> \in {x \in UNION {{<<t, i, p>> : i \in Events(t, "call"), p \in 1..2} : t \in Threads} :
                            /\ x[3] \in Injectables(log[x[1]][x[2]])
                            /\ ResolvedFrom(log[x[1]][x[2]], x[3], "singleton")
                            /\ DefinitionOf(log[x[1]][x[2]], x[3]) = d}}

\* C1: for a SINGLETON definition that no release has yet torn down, whatever
\* the interleaving of the threads that resolve it, the factory (when it does
\* not fail) is entered at most once, and once any call has returned, exactly
\* once, every call having received the one instance it yielded.
C1_SingletonOnce ==
    \A d \in Defs :
        (/\ definitions[d].scope = "singleton"
         /\ ~Functions[definitions[d].fn].raises
         /\ \A m \in ManagersOf(d) : managers[m].exits = 0)
            => /\ Cardinality(ManagersOf(d)) <= 1
               /\ ReceivedFrom(d) # {}
                     => \E m \in ManagersOf(d) :
                           /\ ReceivedFrom(d) = {Object(m)}
                           /\ managers[m].state = "suspended"

\* a thread that found no instance before the lock finds one after it, and
\* both threads end with the same instance
C1_Witness ==
    \E d \in Defs :
        /\ definitions[d].scope = "singleton"
        /\ ~Idle("t2") /\ Top("t2").kind = "_get" /\ Top("t2").pc = "recheck" /\ Top("t2").d = d
        /\ Truthy(instance(d, "t2"))
        /\ ReceivedFrom(d) # {}
        /\ Events("t1", "call") # {}

\* C2: for a CONTEXT definition, resolutions made in two independently created
\* contexts return distinct instances, each from a factory call of its own;
\* two resolutions made in one context with no release in between return the
\* identical instance, constructed once.
C2_ContextIsolation ==
    \A t \in Threads, u \in Threads :
        \A i \in Events(t, "call"), j \in Events(u, "call") :
            \A p \in Injectables(log[t][i]) :
                LET a == log[t][i]
                    b == log[u][j]
                    x == Received(a, p)
                    y == Received(b, p)
                IN (a.fn = b.fn /\ ResolvedFrom(a, p, "context") /\ ResolvedFrom(b, p, "context"))
                   => /\ x.tag = "object" /\ y.tag = "object"
                      /\ managers[x.id].d = DefinitionOf(a, p)
                      /\ managers[y.id].d = DefinitionOf(a, p)
                      /\ t # u => x # y
                      /\ (t = u /\ i < j /\ NoReleaseBetween(t, i, j)) => x = y

C2_Witness ==
    /\ \E i \in Events("t1", "call"), j \in Events("t2", "call") :
          \E p \in Injectables(log["t1"][i]) :
              /\ log["t1"][i].fn = log["t2"][j].fn
              /\ ResolvedFrom(log["t1"][i], p, "context")
              /\ ResolvedFrom(log["t2"][j], p, "context")

\* C3 (as claimed): in an entry block that ends normally, a definition the
\* block releases and that was resolved in it gave one instance to all its
\* resolutions, made by the only construction of the block; that instance was
\* not torn down before the block ended, and its teardown has run once after.
C3_Block ==
    \A t \in Threads :
        /\ (scope[t].active /\ Idle(t))
              => \A o \in scope[t].got :
                    selected(scope[t].factories, managers[o].d) => managers[o].state = "suspended"
        /\ \A i \in Events(t, "entry") :
              LET e == log[t][i]
              IN (e.outcome = "ok")
                    => \A d \in {x \in Defs : selected(e.factories, x)} :
                          LET os == {o \in e.got : managers[o].d = d}
                          IN os # {} =>
                                /\ Cardinality(os) = 1
                                /\ {m \in e.made : managers[m].d = d} \subseteq os
                                /\ os \cap e.before = {}
                                /\ \A o \in os : managers[o].state = "finished"

\* C4 (as claimed): when the block of an entry ends by an error, every selected
\* definition that holds a live instance has its teardown invoked exactly
\* once, with that error, and the same error leaves entry.
C4_ErrorExit ==
    \A t \in Threads : \A i \in Events(t, "entry") :
        LET e == log[t][i]
        IN e.error # "None"
              => /\ e.outcome = e.error
                 /\ \A m \in e.live :
                       Cardinality({k \in 1..Len(e.exited) : e.exited[k] = <<m, e.error>>}) = 1

\* the name test of the lookup, as the specification words it: a definition
\* without a name matches any requirement, a named one a requirement of that
\* name or of no name
NameMatches(definition, requirement) ==
    definition.name = NoName \/ requirement.name = NoName \/ definition.name = requirement.name

\* the definitions that pass both tests for the requirement
Candidates(requirement) ==
    {i \in Defs : /\ \E c \in requirement.type : issubclass(Functions[definitions[i].fn].returns, c)
                  /\ NameMatches(definitions[i], requirement)}

ByPosition(event, p) ==
    /\ Functions[event.fn].parameters[p].kind \in {"POSITIONAL_ONLY", "POSITIONAL_OR_KEYWORD"}
    /\ p <= Len(event.given.args)

ByKeyword(event, p) ==
    /\ Functions[event.fn].parameters[p].kind \in {"KEYWORD_ONLY", "POSITIONAL_OR_KEYWORD"}
    /\ event.given.kwargs[Functions[event.fn].parameters[p].name] # void

\* parameter p is one the call must resolve and nothing can resolve: not given,
\* typed, no definition, every plugin raises LookupError, no default
Unresolvable(event, p) ==
    /\ p \in Injectables(event)
    /\ ~ByPosition(event, p) /\ ~ByKeyword(event, p)
    /\ complete(Functions[event.fn].parameters[p]).type # {}
    /\ DefinitionOf(event, p) = 0
    /\ \A k \in 1..Len(plugins) : plugins[k].raises
    /\ complete(Functions[event.fn].parameters[p]).default = void

\* C6: a call with an injectable parameter that has no matching definition, no
\* plugin giving a value and no default does not invoke the function, and
\* ends with LookupError when that parameter is the first one to resolve.
C6_LookupError ==
    \A t \in Threads : \A i \in Events(t, "call") : \A p \in Injectables(log[t][i]) :
        Unresolvable(log[t][i], p)
            => /\ log[t][i].outcome # "ok"
               /\ (\A q \in 1..(p - 1) : q \notin Injectables(log[t][i])
                                          \/ ByPosition(log[t][i], q) \/ ByKeyword(log[t][i], q))
                     => log[t][i].outcome = "LookupError"

C6_Witness ==
    \E i \in Events("t1", "call") :
        /\ Unresolvable(log["t1"][i], 1)
        /\ Len(plugins) = 2
        /\ log["t1"][i].outcome = "LookupError"

\* C8: a parameter with a Requirement default that the caller gave, by
\* position or by keyword, is not resolved, and the function receives the
\* given value; every argument the caller gave arrives as given.
C8_Explicit ==
    \A t \in Threads : \A i \in Events(t, "call") :
        LET e == log[t][i]
            parameters == Functions[e.fn].parameters
        IN /\ \A p \in Injectables(e) :
                 (ByPosition(e, p) # ByKeyword(e, p))
                    => /\ parameters[p].name \notin e.resolved
                       /\ e.outcome = "ok"
                             => /\ Received(e, p) = (IF ByPosition(e, p) THEN e.given.args[p]
                                                     ELSE e.given.kwargs[parameters[p].name])
                                /\ ByPosition(e, p) => e.kwargs[parameters[p].name] = void
           /\ e.outcome = "ok"
                 => /\ e.args = e.given.args
                    /\ \A n \in ParamNames : e.given.kwargs[n] # void => e.kwargs[n] = e.given.kwargs[n]
                    /\ \A n \in ParamNames : e.kwargs[n] # void => (e.given.kwargs[n] # void \/ n \in e.resolved)

\* a bound method given its parameter by position, and a call given one
\* parameter by keyword while the other is resolved
C8_Witness ==
    \E i \in Events("t1", "call"), j \in Events("t1", "call") :
        /\ log["t1"][i].fn = "method" /\ log["t1"][i].outcome = "ok"
        /\ ByPosition(log["t1"][i], 2) /\ Received(log["t1"][i], 2) = Explicit
        /\ log["t1"][j].fn = "static" /\ log["t1"][j].outcome = "ok"
        /\ ByKeyword(log["t1"][j], 2) /\ Received(log["t1"][j], 2) = Explicit

\* C7: an injectable factory that requires another definition receives, before
\* it yields, the instance that definition holds: on the definition itself
\* (SINGLETON) or in the current context (CONTEXT); that instance was
\* constructed (has yielded) before.
C7_Dependency ==
    \A t \in Threads :
        (~Idle(t) /\ Top(t).kind = "_get" /\ Top(t).pc = "store")
            => LET fn == definitions[Top(t).d].fn
                   kwargs == managers[Top(t).m].kwargs
               IN \A i \in 1..Len(Functions[fn].parameters) :
                     LET parameter == Functions[fn].parameters[i]
                         dd == _get_definition(definitions, complete(parameter))
                     IN (parameter.default # NoRequirement /\ dd # 0)
                           => /\ kwargs[parameter.name].tag = "object"
                              /\ kwargs[parameter.name] = _instance[key(dd, t)][dd]
                              /\ managers[kwargs[parameter.name].id].d = dd
                              /\ managers[kwargs[parameter.name].id].state \in {"suspended", "finished"}
                              /\ kwargs[parameter.name].id < Top(t).m

C7_Witness ==
    \E t \in Threads :
        /\ ~Idle(t) /\ Top(t).kind = "_get" /\ Top(t).pc = "store"
        /\ definitions[Top(t).d].fn = "outer_def"
        /\ definitions[Top(t).d].scope = "context"
        /\ definitions[1].scope = "singleton"
        /\ t = "t2"

\* C9 (as claimed): every resolution of a requirement whose factory was
\* registered with TRANSIENT scope constructs an instance of its own.
C9_Transient ==
    \A t \in Threads : \A i \in Events(t, "call") :
        \A p \in Injectables(log[t][i]) :
            LET e == log[t][i]
                requirement == complete(Functions[e.fn].parameters[p])
            IN (\E k \in 1..Len(defined) :
                    /\ defined[k].scope = "transient"
                    /\ matches(defined[k], requirement))
                  => /\ e.outcome = "ok"
                     /\ Received(e, p).tag = "object"
                     /\ \A u \in Threads : \A j \in Events(u, "call") :
                           (<<u, j>> # <<t, i>> /\ log[u][j].fn = e.fn)
                              => Received(log[u][j], p) # Received(e, p)

\* C10 (as claimed): a release pass invokes the teardown of every selected
\* definition that held a live instance when the pass began, whatever the
\* teardowns before it did.
C10_AllReleased ==
    \A t \in Threads : \A i \in Events(t, "entry") :
        \A m \in log[t][i].live :
            \E k \in 1..Len(log[t][i].exited) : log[t][i].exited[k][1] = m

\* C11 (as claimed): a parameter for which the registry holds a matching
\* definition, and which the caller did not give, is bound to an instance of
\* that definition whenever the call goes on to invoke the function; neither a
\* plugin's value nor the requirement's default takes its place.
C11_DefinitionOnly ==
    \A t \in Threads : \A i \in Events(t, "call") : \A p \in Injectables(log[t][i]) :
        LET e == log[t][i]
        IN (/\ ~ByPosition(e, p) /\ ~ByKeyword(e, p)
            /\ complete(Functions[e.fn].parameters[p]).type # {}
            /\ DefinitionOf(e, p) # 0
            /\ e.outcome = "ok")
              => /\ Received(e, p).tag = "object"
                 /\ managers[Received(e, p).id].d = DefinitionOf(e, p)

\* the plugins that return a value (do not raise LookupError)
Yielding == {k \in 1..Len(plugins) : ~plugins[k].raises}

\* parameter p is left to the fallbacks: not given, typed, no definition, and
\* no injectable parameter before it was left to anything
Fallback(event, p) ==
    /\ p \in Injectables(event)
    /\ ~ByPosition(event, p) /\ ~ByKeyword(event, p)
    /\ complete(Functions[event.fn].parameters[p]).type # {}
    /\ DefinitionOf(event, p) = 0
    /\ \A q \in 1..(p - 1) : q \notin Injectables(event) \/ ByPosition(event, q) \/ ByKeyword(event, q)

\* C12 (as claimed): with no definition, the first plugin in list order that
\* returns a value gives the parameter that value, whatever the value, and no
\* later plugin is called; with no such plugin the default is bound when there
\* is one, and LookupError is raised otherwise.
C12_Fallback ==
    \A t \in Threads : \A i \in Events(t, "call") : \A p \in Injectables(log[t][i]) :
        LET e == log[t][i]
            requirement == complete(Functions[e.fn].parameters[p])
        IN Fallback(e, p)
              => IF Yielding # {}
                 THEN LET first == CHOOSE k \in Yielding : \A j \in Yielding : k <= j
                      IN /\ e.outcome = "ok"
                         /\ Received(e, p) = plugins[first].value
                         /\ _get_extra(plugins, requirement).called = first
                 ELSE IF requirement.default # void
                 THEN e.outcome = "ok" /\ Received(e, p) = requirement.default
                 ELSE e.outcome = "LookupError"

\* C13 (as claimed): for a requirement resolved through Injectable.__call__,
\* the name test of the lookup accepts a definition exactly when the definition
\* has no name, or the requirement was declared without a name, or the two
\* names are the same.
C13_NameTest ==
    found.requirement # NoRequirement
        => \A i \in Defs :
              issuperclass(found.requirement, type(definitions[i]))
                 => (matches(definitions[i], found.requirement)
                        <=> NameMatches(definitions[i], found.parameter.default))

\* the name a requirement asks for: the one it was declared with, else the
\* name of its parameter
AskedName(parameter) ==
    IF parameter.default.name # NoName THEN parameter.default.name ELSE parameter.name

\* the definitions of the right type whose name is unset or the asked one
Named(parameter) ==
    {i \in Defs : /\ \E c \in (IF parameter.default.type # {} THEN parameter.default.type
                               ELSE parameter.annotation) :
                        issubclass(Functions[definitions[i].fn].returns, c)
                  /\ definitions[i].name \in {NoName, AskedName(parameter)}}

\* C13 (amended): a definition with no name matches a requirement of any name;
\* a definition with a name matches exactly when it is the name the
\* requirement was declared with or, the requirement declared without one, the
\* name of the parameter; the lookup gives the first definition that so matches.
C13_NameTestAmended ==
    found.requirement # NoRequirement
        => /\ \A i \in Defs :
                 issuperclass(found.requirement, type(definitions[i]))
                    => (matches(definitions[i], found.requirement)
                           <=> definitions[i].name \in {NoName, AskedName(found.parameter)})
           /\ found.definition # 0
                 => /\ found.definition \in Named(found.parameter)
                    /\ \A j \in Named(found.parameter) : found.definition <= j
           /\ (Named(found.parameter) = {})
                 <=> (_get_definition(definitions, complete(found.parameter)) = 0)

\* a requirement declared without a name passes over a definition of its type
\* with another name and finds a later one; one declared with that name finds it
C13_Witness ==
    /\ found.requirement # NoRequirement
    /\ found.parameter.default.name = NoName
    /\ found.definition = 2
    /\ definitions[1].name = "svc" /\ found.parameter.name = "a"
    /\ issuperclass(found.requirement, type(definitions[1]))

\* C14 (as claimed): every call of define that has returned was made with a
\* recognized scope and appended a definition to the registry.
C14_DefineFails ==
    /\ \A k \in 1..Len(defined) : defined[k].scope \in Scopes
    /\ Len(definitions) = Len(defined)

\* in the branched context, before any release there, a call resolved from
\* the context definition the parent holds an instance of received that
\* instance, and the definition's factory has made no manager since
BranchReads ==
    cur = "t2"
        => /\ \A j \in Events("t2", "call") : \A p \in Injectables(log["t2"][j]) :
                 LET e == log["t2"][j]
                     d == DefinitionOf(e, p)
                 IN (/\ ResolvedFrom(e, p, "context")
                     /\ NoReleaseBetween("t2", 1, j)
                     /\ Truthy(_instance["t1"][d]))
                       => Received(e, p) = _instance["t1"][d]
           /\ \A d \in Defs :
                 (/\ definitions[d].scope = "context"
                  /\ Truthy(_instance["t1"][d])
                  /\ Events("t2", "entry") = {})
                    => \A m \in ManagersOf(d) : m <= _instance["t1"][d].id

\* C15: a context branched from a parent that holds an instance of a CONTEXT
\* definition resolves to that instance, without a construction; and no step
\* taken in the branched context (a construction, a release, a clearing)
\* changes the instance or the manager stored in the parent context.
C15_Branch ==
    /\ []BranchReads
    /\ [][cur = "t2" => (_instance'["t1"] = _instance["t1"] /\ _manager'["t1"] = _manager["t1"])]_vars

\* the branched context received the parent's instance and then released it:
\* its own slot is empty, the parent's is as it was
C15_Witness ==
    /\ cur = "t2"
    /\ \E d \in Defs :
          /\ definitions[d].scope = "context"
          /\ Truthy(_instance["t1"][d]) /\ _manager["t1"][d] # None
          /\ _instance["t2"][d] = None /\ _manager["t2"][d] = None
          /\ \E j \in Events("t2", "call") :
                Objects(log["t2"][j].kwargs) \cap {_instance["t1"][d].id} # {}
          /\ \E j \in Events("t2", "entry") :
                \E k \in 1..Len(log["t2"][j].exited) : log["t2"][j].exited[k][1] = _instance["t1"][d].id

\* a release pass of thread t filtered to a non-empty set of factories is running
Filtering(t) ==
    /\ stack[t] # <<>>
    /\ Top(t).kind = "release"
    /\ Top(t).factories # {}

\* every manager a filtered release exited belongs to a definition of the filter
FilteredExits ==
    \A t \in Threads : \A j \in Events(t, "entry") :
        LET e == log[t][j]
        IN e.factories # {}
              => \A k \in 1..Len(e.exited) : managers[e.exited[k][1]].d \in e.factories

\* C16: a release filtered to a non-empty set of factories exits only managers
\* of definitions whose factory is in the set; no step of the release changes
\* the instance or the manager stored by any other definition, nor the state
\* of that manager, which stays live.
C16_Filtered ==
    /\ []FilteredExits
    /\ [][\A t \in Threads : \A d \in Defs :
            (Filtering(t) /\ d \notin Top(t).factories)
                => /\ _instance'[key(d, t)][d] = _instance[key(d, t)][d]
                   /\ _manager'[key(d, t)][d] = _manager[key(d, t)][d]
                   /\ _manager[key(d, t)][d] # None
                        => managers'[_manager[key(d, t)][d].id] = managers[_manager[key(d, t)][d].id]]_vars

\* a filtered release exited the manager of the selected definition while
\* another definition held a live instance, which it still holds
C16_Witness ==
    \E t \in Threads : \E j \in Events(t, "entry") : \E d \in Defs :
        LET e == log[t][j]
        IN /\ j = Len(log[t])
           /\ e.factories # {} /\ d \notin e.factories
           /\ Len(e.exited) > 0
           /\ Truthy(_instance[key(d, t)][d])
           /\ _manager[key(d, t)][d] # None
           /\ managers[_manager[key(d, t)][d].id].state = "suspended"
           /\ _manager[key(d, t)][d].id \in e.got

\* C17: a call of a function wrapped by Container.root runs in a context of its
\* own: the context-scope instances it received were constructed in it, are
\* not the instance the caller's context holds and were received by no other
\* call; and when the call has ended, normally or by an exception, each of
\* them is torn down and no context definition holds a manager or an instance
\* in the call's context.
C17_Root ==
    \A j \in Events("t2", "root") :
        LET e == log["t2"][j]
        IN /\ e.got \subseteq e.made
           /\ \A d \in Defs : definitions[d].scope = "context" => _instance["t1"][d].id \notin e.got
           /\ \A i \in Events("t2", "root") : i # j => log["t2"][i].got \cap e.got = {}
           /\ \A m \in e.got : managers[m].state = "finished"
           /\ e.live = {}

\* a release is between the teardown of manager m and the clearing of its definition
Clearing(m) ==
    \E t \in Threads :
        /\ stack[t] # <<>>
        /\ Top(t).kind = "release"
        /\ Top(t).pc \in {"clear", "clear instance"}
        /\ Top(t).m = m

\* C18: once a release has invoked the teardown of a live instance, of a
\* SINGLETON or a CONTEXT definition, whether or not the teardown raised, no
\* definition stores that instance or its manager any more, and no later
\* release invokes the teardown again.
C18_Cleared ==
    \A m \in Used :
        (managers[m].state = "finished" /\ managers[m].exits >= 1 /\ ~Clearing(m))
            => /\ managers[m].exits = 1
               /\ \A k \in Keys : \A d \in 1..MaxDefs :
                     _manager[k][d] # Manager(m) /\ _instance[k][d] # Object(m)

\* C19: when the factory raises during construction, the definition is left
\* as it was before: no definition stores the manager of the failed
\* construction or an instance of it, and no release invokes its teardown.
C19_FailedConstruction ==
    \A m \in Used :
        managers[m].state = "aborted"
            => /\ managers[m].exits = 0
               /\ \A k \in Keys : \A d \in 1..MaxDefs :
                     _manager[k][d] # Manager(m) /\ _instance[k][d] # Object(m)

\* C20: when the block of an entry ends by an error, that error leaves entry,
\* whatever the teardowns of the release do; when the block ends normally and
\* a teardown raises, its error leaves entry only after the teardown of every
\* selected definition that held a live instance has been invoked.
C20_ErrorPrecedence ==
    \A t \in Threads : \A i \in Events(t, "entry") :
        LET e == log[t][i]
        IN /\ e.error # "None" => e.outcome = e.error
           /\ (e.error = "None" /\ e.outcome # "ok")
                 => \A m \in e.live : \E k \in 1..Len(e.exited) : e.exited[k][1] = m

\* parameter p of the event's function has no type after completion: its
\* Requirement names none and the parameter is declared without an annotation
Untyped(event, p) ==
    LET parameter == Functions[event.fn].parameters[p]
    IN /\ p \in Injectables(event)
       /\ parameter.default.type = {}
       /\ parameter.annotation = {}

\* C21 (as claimed): a call that has to resolve a parameter with no type after
\* completion ends with an error that is not LookupError; the function is not
\* invoked with a plugin's value or the default in that parameter's place.
C21_NoType ==
    \A t \in Threads : \A i \in Events(t, "call") : \A p \in Injectables(log[t][i]) :
        LET e == log[t][i]
        IN (Untyped(e, p) /\ ~ByPosition(e, p) /\ ~ByKeyword(e, p))
              => e.outcome \notin {"ok", "LookupError"}

\* Container.exit of thread t is about to release definition d, which holds
\* neither a manager nor an instance
Unheld(t, d) ==
    /\ stack[t] # <<>>
    /\ Top(t).kind \in {"exit", "rootify"} /\ Top(t).pc = "exit"
    /\ Top(t).i = d
    /\ definitions[d].scope = (IF Top(t).kind = "exit" THEN Top(t).fn ELSE "context")
    /\ _manager[key(d, t)][d] = None /\ _instance[key(d, t)][d] = None

\* C22 (as claimed): the release of a definition that holds no stored value,
\* in the Container too, raises nothing (the release pass goes on to the next
\* definition), invokes no factory and no teardown, and leaves the stored
\* state as it was.
C22_NoOp ==
    [][\A t \in Threads : \A d \in Defs :
          (Running(t) /\ Unheld(t, d))
              => /\ stack'[t] # <<>>
                 /\ stack'[t][1].i = d + 1
                 /\ stack'[t][1].exited = Top(t).exited
                 /\ <<_instance, _manager, managers>>' = <<_instance, _manager, managers>>]_vars

\* no context, and no singleton definition, holds an instance whose teardown
\* has been invoked, once the release that invoked it has cleared its own slot
NoneDead ==
    \A k \in Keys : \A d \in 1..MaxDefs :
        (_instance[k][d].tag = "object" /\ ~Clearing(_instance[k][d].id))
            => managers[_instance[k][d].id].state # "finished"

\* C23 (as claimed): no execution context holds an instance that has been torn
\* down, and a call that ends by invoking its function has received no
\* instance whose teardown had been invoked before.
C23_NoDead ==
    /\ []NoneDead
    /\ [][\A t \in Threads :
            (Len(log'[t]) > Len(log[t]) /\ log'[t][Len(log'[t])].op = "call")
                => \A m \in Objects(log'[t][Len(log'[t])].kwargs) : managers[m].state # "finished"]_vars

\* C24 (as claimed): a call that invokes its function has, for every parameter
\* resolved from a definition, received an instance of it, never the empty
\* value, whatever the release of another thread did meanwhile.
C24_LiveRead ==
    \A t \in Threads : \A i \in Events(t, "call") : \A p \in Injectables(log[t][i]) :
        (\E sc \in {"singleton", "context"} : ResolvedFrom(log[t][i], p, sc))
            => Received(log[t][i], p).tag = "object"

\* C25 (as claimed): between operations, when no thread is inside a call or a
\* release, every definition stores an instance exactly when it stores a manager.
C25_Paired ==
    (\A t \in Threads : Idle(t))
        => \A k \in Keys : \A d \in 1..MaxDefs :
              (_instance[k][d] # None) <=> (_manager[k][d] # None)

\* the definitions the factory of definition d is given by first-match lookup
Needs(d) ==
    LET parameters == Functions[definitions[d].fn].parameters
    IN {_get_definition(definitions, complete(parameters[i])) :
           i \in {j \in 1..Len(parameters) : parameters[j].default # NoRequirement}} \ {0}

\* the definitions reached from the set S in at most n steps
RECURSIVE Reach(_, _)
Reach(S, n) == IF n = 0 THEN S ELSE Reach(S \cup UNION {Needs(d) : d \in S}, n - 1)

\* no factory's requirements lead back to its own definition
Acyclic == \A d \in Defs : d \notin Reach(Needs(d), MaxDefs)

\* C26: when no factory's requirements lead back to its own definition, every
\* call a thread has begun ends, by returning or by raising: the thread is
\* never left waiting for a definition's lock.
C26_Terminates ==
    \A t \in Threads : (stack[t] # <<>> /\ Acyclic) ~> (stack[t] = <<>>)

\* a thread waits for the lock of a definition while the other thread holds it
\* and, inside it, resolves what that definition's factory needs
C26_Witness ==
    \E t \in Threads, u \in Threads :
        /\ t # u /\ Acyclic
        /\ stack[t] # <<>> /\ Top(t).kind = "_get" /\ Top(t).pc = "lock"
        /\ _lock[Top(t).d] = u
        /\ Len(stack[u]) >= 4

====
